---- MODULE Spec2Model ----
(***************************************************************************)
(* A model of the Monte Carlo Tree Search engine of                        *)
(* agentq/core/mcts/core/mcts.py: MCTSNode, MCTS (construction, search,    *)
(* iterate, _select, _uct_select, _expand, _simulate, _back_propagate,     *)
(* the output strategies, __call__) and MCTSAggregation.__init__.          *)
(*                                                                         *)
(* The world model and the search configuration are external: every answer *)
(* they give (reward, terminality, the action list, the fast rewards) is   *)
(* drawn from a small set at the moment the engine asks for it.  A state   *)
(* of the world is the sequence of actions that leads to it from the       *)
(* initial state.  Rewards are small integers and Q is an exact fraction   *)
(* [num, den] in lowest terms; negative infinity is the fraction -1/0.     *)
(***************************************************************************)
EXTENDS Integers, Sequences, FiniteSets, TLC

\* ------------------------------------------------------------------ bounds

\* n_iters is drawn from 0..MaxIters
MaxIters == 3
\* depth_limit is drawn from 0..MaxDepthLimit
MaxDepthLimit == 2
\* the engines built have depth_limit * n_iters <= MaxWork
MaxWork == 4
\* the largest depth_limit * n_iters of an engine with w_exp = 0
MaxGreedyWork == 6

Actions == {"a", "b"}
\* what search_config.get_actions may return
ActionLists == {<< >>, <<"a">>, <<"a", "b">>}
\* what search_config.reward may return
Rewards == {0, 1}
\* what search_config.fast_reward may return for the first and the second action
FastRewardLists == {<<0, 1>>}
\* the exploration weights w_exp the engine is built with
WExps == {0, 1}

\* ---------------------------------------------------------------- sentinels

\* Python's None for a state, an action, a parent, a children list, a path
NoneState == <<"None">>
NoneAction == "None"
NoneParent == -1
NoneChildren == <<-1>>
NonePath == <<-1>>
NoneTraces == <<NonePath>>
\* Python's None for an answer
NoneAnswer == "None"

\* ------------------------------------------------------------- arithmetic

RECURSIVE GCD(_, _)
GCD(a, b) == IF b = 0 THEN a ELSE GCD(b, a % b)

Abs(x) == IF x < 0 THEN -x ELSE x

\* the fraction n/d (d > 0) in lowest terms
Frac(n, d) == LET g == GCD(Abs(n), d) IN [num |-> n \div g, den |-> d \div g]

Whole(n) == [num |-> n, den |-> 1]

\* -math.inf
NegInf == [num |-> -1, den |-> 0]

\* a + b on fractions
Plus(a, b) == Frac(a.num * b.den + b.num * a.den, a.den * b.den)

\* a < b, a > b on fractions and -inf
Less(a, b) == a.num * b.den < b.num * a.den
Greater(a, b) == Less(b, a)

RECURSIVE SumSeq(_)
SumSeq(s) == IF s = << >> THEN 0 ELSE Head(s) + SumSeq(Tail(s))

Last(s) == s[Len(s)]

\* the default reducer cum_reward = sum, on a list of integer rewards
cum_reward(rewards) == Whole(SumSeq(rewards))

\* ------------------------------------------------------------------- state

VARIABLES
    pc,                 \* where the engine is: "new", "rejected", "idle", "select",
                        \* "expand", "simulate", "backprop", "output", "done", "error"
    aggregator,         \* the MCTSAggregation built for the engine: its weight_policy
    cfg,                \* the engine's configuration (self.output_strategy, ...)
    nodes,              \* the nodes created since reset_id, by id
    id_iter,            \* MCTSNode.id_iter: the next id
    iter,               \* the loop counter of search
    path,               \* the path of the running iteration
    cur,                \* the local variable node of _select and _simulate
    output_iter,        \* self._output_iter
    output_cum_reward,  \* self._output_cum_reward
    result,             \* the MCTSResult the last __call__ returned
    error,              \* the exception that ended construction or the search
    hist,               \* the back-propagations of this search, in order
    found_before,       \* an earlier __call__ of this engine returned a trajectory
                        \* that ends in a terminal node
    trace_in_each_iter, \* self.trace_in_each_iter
    env,                \* the position of the environment behind world_model
    calls               \* the collaborator calls of the running iteration, in order

vars == <<pc, aggregator, cfg, nodes, id_iter, iter, path, cur, output_iter,
          output_cum_reward, result, error, hist, found_before, trace_in_each_iter,
          env, calls>>

OutputStrategies == {"max_reward", "follow_max", "max_visit", "max_iter", "last_iter",
                     "last_terminal_iter"}
DefaultSimulateStrategies == {"max", "sample", "random"}
WeightPolicies == {"edge", "edge_inverse_depth", "uniform"}

\* the names a caller may pass, one unknown name among them
OutputStrategyNames == OutputStrategies \cup {"unknown"}
SimulateStrategyNames == DefaultSimulateStrategies \cup {"unknown"}
WeightPolicyNames == WeightPolicies \cup {"unknown"}

NoAggregator == "None"
NoConfig == [output_strategy |-> "None", simulate_choice |-> "None", w_exp |-> 0,
             depth_limit |-> 0, n_iters |-> 0, output_trace_in_each_iter |-> FALSE]

\* ------------------------------------------------------------------- nodes

\* MCTSNode.__init__ with the depth of the parent as the depth of the node
MCTSNode_depth_of_parent(state, action, parent, fast_reward, ns) ==
    [state |-> state, action |-> action, parent |-> parent, children |-> NoneChildren,
     depth |-> IF parent = NoneParent THEN 0 ELSE ns[parent].depth,
     is_terminal |-> FALSE, fast_reward |-> fast_reward, reward |-> fast_reward,
     N |-> 0, Q |-> Whole(0)]

\* MCTSNode.__init__
MCTSNode(state, action, parent, fast_reward, ns) ==
    [state |-> state, action |-> action, parent |-> parent, children |-> NoneChildren,
     depth |-> IF parent = NoneParent THEN 0 ELSE ns[parent].depth + 1,
     is_terminal |-> FALSE, fast_reward |-> fast_reward, reward |-> fast_reward,
     N |-> 0, Q |-> Whole(0)]

\* MCTSNode.Q, the getter
Q(n) == IF n.N = 0 THEN Whole(0) ELSE n.Q

\* the depth test off by one: node.depth > self.depth_limit
is_terminal_with_depth_limit_late(n, depth_limit) == n.is_terminal \/ n.depth > depth_limit

\* MCTS._is_terminal_with_depth_limit
is_terminal_with_depth_limit(n, depth_limit) == n.is_terminal \/ n.depth >= depth_limit

\* world_model.step(state, action): the state the action leads to
Step(state, action) == Append(state, action)

\* ---------------------------------------------------------------- selection

\* 10^4 * ln(n) for n = 1..16, for math.log(node.parent.N)
LnTable == <<0, 6931, 10986, 13863, 16094, 17918, 19459, 20794, 21972, 23026, 23979,
             24849, 25649, 26391, 27081, 27726>>

RECURSIVE SqrtBetween(_, _, _)
SqrtBetween(x, lo, hi) ==
    IF lo >= hi THEN lo
    ELSE LET mid == (lo + hi + 1) \div 2
         IN IF mid * mid <= x THEN SqrtBetween(x, mid, hi) ELSE SqrtBetween(x, lo, mid - 1)

\* 10^4 * sqrt(x / 10^8), rounded down, for math.sqrt
Sqrt(x) == SqrtBetween(x, 0, 20000)

\* _uct without node.Q: the exploration term alone
uct_without_Q(ns, id, w_exp) ==
    w_exp * Sqrt((LnTable[ns[ns[id].parent].N] * 10000) \div (1 + ns[id].N))

\* MCTS._uct in units of 10^-4: node.Q + w_exp * sqrt(log(parent.N) / (1 + node.N))
uct(ns, id, w_exp) ==
    LET n == ns[id]
        q == Q(n)
    IN (q.num * 10000) \div q.den
       + w_exp * Sqrt((LnTable[ns[n.parent].N] * 10000) \div (1 + n.N))

\* Python's max(seq, key): the index of the first element with the largest key
FirstMax(keys) ==
    CHOOSE i \in 1..Len(keys) :
        /\ \A j \in 1..Len(keys) : keys[j] <= keys[i]
        /\ \A j \in 1..(i - 1) : keys[j] < keys[i]

\* the children of a node with N = 0, as indexes into its children list
Unvisited(ns, id) == {i \in 1..Len(ns[id].children) : ns[ns[id].children[i]].N = 0}

\* math.log(0) raises ValueError: _uct fails when the parent's N is 0
uct_fails(ns, id) == Unvisited(ns, id) = {} /\ ns[id].N = 0

\* _uct_select without lines 290-292: the UCB1 maximum among all children
uct_select_ucb_only(ns, id, w_exp) ==
    ns[id].children[FirstMax([i \in 1..Len(ns[id].children) |->
                                 uct(ns, ns[id].children[i], w_exp)])]

\* MCTS._uct_select
uct_select(ns, id, w_exp) ==
    LET ch == ns[id].children
    IN IF Unvisited(ns, id) # {}
       THEN ch[CHOOSE i \in Unvisited(ns, id) : \A j \in Unvisited(ns, id) : i <= j]
       ELSE ch[FirstMax([i \in 1..Len(ch) |-> uct(ns, ch[i], w_exp)])]

\* ---------------------------------------------------------------- expansion

\* what the collaborators answer during one _expand: search_config.reward,
\* world_model.is_terminal, search_config.get_actions and search_config.fast_reward
\* of each action
Responses == [reward : Rewards, is_terminal : BOOLEAN, actions : ActionLists,
              fast_rewards : FastRewardLists]

\* the answers that _expand(node) asks for: reward and is_terminal only of an
\* unresolved node, the actions and their fast rewards only of a node that is not
\* terminal; the answers it does not ask for are held fixed
asked(ns, id) ==
    IF ns[id].state = NoneState
    THEN {r \in Responses : r.is_terminal => r.actions = << >>}
    ELSE {r \in Responses : r.reward = 0 /\ ~r.is_terminal}

\* _expand without lines 310-311: a terminal node is given children too
expand_terminal_too(ns, id, resp, next_id) ==
    LET n == ns[id]
        resolved == IF n.state = NoneState
                    THEN [n EXCEPT !.state = Step(ns[n.parent].state, n.action),
                                   !.reward = resp.reward,
                                   !.is_terminal = resp.is_terminal]
                    ELSE n
        ns1 == [ns EXCEPT ![id] = resolved]
        k == Len(resp.actions)
    IN [i \in 0..(next_id + k - 1) |->
          IF i = id THEN [resolved EXCEPT !.children = [j \in 1..k |-> next_id + j - 1]]
          ELSE IF i < next_id THEN ns1[i]
          ELSE MCTSNode(NoneState, resp.actions[i - next_id + 1], id,
                        resp.fast_rewards[i - next_id + 1], ns1)]

\* MCTS._expand(node) with the collaborators answering resp; next_id is the id
\* the next node gets
expand(ns, id, resp, next_id) ==
    LET n == ns[id]
        resolved == IF n.state = NoneState
                    THEN [n EXCEPT !.state = Step(ns[n.parent].state, n.action),
                                   !.reward = resp.reward,
                                   !.is_terminal = resp.is_terminal]
                    ELSE n
        ns1 == [ns EXCEPT ![id] = resolved]
        k == Len(resp.actions)
    IN IF resolved.is_terminal
       THEN ns1
       ELSE [i \in 0..(next_id + k - 1) |->
               IF i = id THEN [resolved EXCEPT !.children = [j \in 1..k |-> next_id + j - 1]]
               ELSE IF i < next_id THEN ns1[i]
               ELSE MCTSNode(NoneState, resp.actions[i - next_id + 1], id,
                             resp.fast_rewards[i - next_id + 1], ns1)]

\* the indexes simulate_choice may return on a list of fast rewards; none when it raises
simulate_choice(name, fast_rewards) ==
    CASE name = "max" -> {FirstMax(fast_rewards)}
      [] name = "sample" -> IF SumSeq(fast_rewards) = 1
                            THEN {i \in 1..Len(fast_rewards) : fast_rewards[i] > 0}
                            ELSE {}
      [] name = "random" -> 1..Len(fast_rewards)
      [] OTHER -> {}

\* ---------------------------------------------------- collaborator calls

\* the environment behind world_model after a step with the action: the action is
\* applied to the position the environment is at
move(position, action) == Append(position, action)

\* a call of a collaborator for the node: fn names it, arg is the state given to
\* step, the actions get_actions returned or the action given to fast_reward, at
\* the position of the environment when the call is made
call(fn, node, arg, at) == [fn |-> fn, node |-> node, arg |-> arg, at |-> at]

\* world_model.step(node.parent.state, node.action), lines 269-271 and 299-301
step_call(node, state, at) == call("step", node, state, at)

\* self.simulate_choice(fast_rewards) on the children of the node, line 347
choice_call(node, at) == call("simulate_choice", node, << >>, at)

\* the environment after MCTS._expand(node): it has moved when the node was unresolved
expand_env(ns, id, position) ==
    IF ns[id].state = NoneState THEN move(position, ns[id].action) ELSE position

\* the calls of _expand with get_actions asked before the node is resolved
expand_calls_actions_first(ns, id, resp, next_id, position) ==
    LET at == expand_env(ns, id, position)
        resolve == IF ns[id].state = NoneState
                   THEN <<step_call(id, ns[ns[id].parent].state, position),
                          call("reward", id, << >>, at),
                          call("is_terminal", id, << >>, at)>>
                   ELSE << >>
        k == Len(resp.actions)
    IN <<call("get_actions", id, resp.actions, at)>> \o resolve
       \o [j \in 1..(2 * k) |->
              IF j % 2 = 1
              THEN call("fast_reward", id, <<resp.actions[(j + 1) \div 2]>>, at)
              ELSE call("MCTSNode", next_id + (j \div 2) - 1, << >>, at)]

\* the collaborator calls of MCTS._expand(node), in order, with the collaborators
\* answering resp
expand_calls(ns, id, resp, next_id, position) ==
    LET at == expand_env(ns, id, position)
        resolve == IF ns[id].state = NoneState
                   THEN <<step_call(id, ns[ns[id].parent].state, position),
                          call("reward", id, << >>, at),
                          call("is_terminal", id, << >>, at)>>
                   ELSE << >>
        terminal == IF ns[id].state = NoneState THEN resp.is_terminal
                    ELSE ns[id].is_terminal
        k == Len(resp.actions)
    IN IF terminal THEN resolve
       ELSE resolve \o <<call("get_actions", id, resp.actions, at)>>
            \o [j \in 1..(2 * k) |->
                   IF j % 2 = 1
                   THEN call("fast_reward", id, <<resp.actions[(j + 1) \div 2]>>, at)
                   ELSE call("MCTSNode", next_id + (j \div 2) - 1, << >>, at)]

\* ---------------------------------------------------------- back-propagation

\* update without the visit count: node.N += 1 is lost
update_without_count(n, reward) ==
    [n EXCEPT !.Q = Frac(Q(n).num * n.N + reward * Q(n).den, Q(n).den * (n.N + 1))]

\* update without the weight of the earlier visits: node.Q = (node.Q + reward) / 2
update_unweighted(n, reward) ==
    [n EXCEPT !.Q = Frac(Q(n).num + reward * Q(n).den, Q(n).den * 2), !.N = n.N + 1]

\* MCTS._back_propagate, lines 366-367: node.Q = (node.Q * node.N + reward) / (node.N + 1)
\* and node.N += 1
update(n, reward) ==
    [n EXCEPT !.Q = Frac(Q(n).num * n.N + reward * Q(n).den, Q(n).den * (n.N + 1)),
              !.N = n.N + 1]

\* _back_propagate that stops after path[-1]: the nodes above it are not updated
back_propagate_leaf_only(ns, p, k, reward) ==
    IF k = 0 THEN ns ELSE [ns EXCEPT ![p[k]] = update(ns[p[k]], reward)]

\* MCTS._back_propagate: the loop over reversed(path), from position k down to 1
RECURSIVE back_propagate(_, _, _, _)
back_propagate(ns, p, k, reward) ==
    IF k = 0 THEN ns
    ELSE back_propagate([ns EXCEPT ![p[k]] = update(ns[p[k]], reward)], p, k - 1, reward)

\* ---------------------------------------------------------------- failures

\* the numbers of children _expand may have created when get_actions or a
\* fast_reward raises: none, or fewer than the actions get_actions returned
CreatedBeforeFailure == {k \in 0..Cardinality(Actions) : \E a \in ActionLists : k < Len(a)}

\* what MCTS._expand(node) leaves behind when one of its collaborator calls
\* raises: the nodes, MCTSNode.id_iter and the position of the environment.
\* step raises before anything is assigned; reward raises after node.state is
\* assigned; is_terminal raises after node.reward is assigned; get_actions and
\* fast_reward raise on the resolved node that is not terminal, fast_reward after
\* created children were made that are never attached
expand_failures(ns, id, next_id, position) ==
    LET n == ns[id]
        moved == move(position, n.action)
        stepped == [ns EXCEPT ![id].state = Step(ns[n.parent].state, n.action)]
        rewarded(r) == [stepped EXCEPT ![id].reward = r]
        left(after, created, at) == [nodes |-> after, id_iter |-> next_id + created,
                                     env |-> at]
    IN IF n.state = NoneState
       THEN {left(ns, 0, position), left(stepped, 0, moved)}
            \cup {left(rewarded(r), 0, moved) : r \in Rewards}
            \cup {left(rewarded(r), created, moved) :
                     r \in Rewards, created \in CreatedBeforeFailure}
       ELSE {left(ns, created, position) : created \in CreatedBeforeFailure}

\* iterate with _back_propagate in a finally clause: the path is back-propagated
\* although a collaborator call raised
unwind_back_propagated(ns, p) ==
    back_propagate(ns, p, Len(p), ns[Last(p)].reward)

\* MCTS.iterate when a collaborator call raises: the exception leaves iterate
\* before line 232, the path p is dropped and nothing is back-propagated
unwind(ns, p) == ns

\* lines 234-246 without "cum_reward > self._output_cum_reward" for max_iter
record_output_not_greater(output_strategy, ns, p, cum, old_cum, old_iter) ==
    IF output_strategy \in {"max_iter", "last_terminal_iter"} /\ ns[Last(p)].is_terminal
    THEN <<cum, p>>
    ELSE IF output_strategy = "last_iter" THEN <<cum, p>>
    ELSE <<old_cum, old_iter>>

\* lines 234-246 without "path[-1].is_terminal" for last_terminal_iter
record_output_any_tail(output_strategy, ns, p, cum, old_cum, old_iter) ==
    IF output_strategy = "max_iter" /\ ns[Last(p)].is_terminal /\ Greater(cum, old_cum)
    THEN <<cum, p>>
    ELSE IF output_strategy \in {"last_iter", "last_terminal_iter"} THEN <<cum, p>>
    ELSE <<old_cum, old_iter>>

\* MCTS.iterate, lines 234-246: the output candidate after an iteration, as
\* <<_output_cum_reward, _output_iter>>
record_output(output_strategy, ns, p, cum, old_cum, old_iter) ==
    LET terminal == ns[Last(p)].is_terminal
    IN IF output_strategy = "max_iter" /\ terminal /\ Greater(cum, old_cum) THEN <<cum, p>>
       ELSE IF output_strategy = "last_iter" THEN <<cum, p>>
       ELSE IF output_strategy = "last_terminal_iter" /\ terminal THEN <<cum, p>>
       ELSE <<old_cum, old_iter>>

\* ------------------------------------------------------------------ output

\* the first element whatever its key
FirstMaxFrac_first(keys) == 1

\* Python's max(seq, key) on fractions: the index of the first largest one
FirstMaxFrac(keys) ==
    CHOOSE i \in 1..Len(keys) :
        /\ \A j \in 1..Len(keys) : ~Less(keys[i], keys[j])
        /\ \A j \in 1..(i - 1) : Less(keys[j], keys[i])

\* [x for x in node.children if x.state is not None]
visited_children(ns, id) == SelectSeq(ns[id].children, LAMBDA x : ns[x].state # NoneState)

\* [node.reward for node in p]
rewards_of(ns, p) == [i \in 1..Len(p) |-> ns[p[i]].reward]

\* Python's max(candidates, key=lambda x: x[0]) on <<cum_reward, path>> pairs
max_by_reward(candidates) ==
    candidates[FirstMaxFrac([i \in 1..Len(candidates) |-> candidates[i][1]])]

\* MCTS._dfs_max_reward(path), as <<cum_reward, path>>; dfs_children is the
\* generator of line 382 from the k-th visited child
RECURSIVE dfs_max_reward(_, _)
RECURSIVE dfs_children(_, _, _, _)
dfs_max_reward(ns, p) ==
    LET c == ns[Last(p)]
    IN IF c.is_terminal THEN <<cum_reward(rewards_of(ns, Tail(p))), p>>
       ELSE IF c.children = NoneChildren THEN <<NegInf, p>>
       ELSE IF Len(visited_children(ns, Last(p))) = 0 THEN <<NegInf, p>>
       ELSE max_by_reward(dfs_children(ns, p, visited_children(ns, Last(p)), 1))

dfs_children(ns, p, visited, k) ==
    IF k > Len(visited) THEN << >>
    ELSE <<dfs_max_reward(ns, Append(p, visited[k]))>> \o dfs_children(ns, p, visited, k + 1)

\* MCTS.search, lines 411-420: the greedy descent of follow_max from the path p
RECURSIVE follow_max(_, _)
follow_max(ns, p) ==
    LET c == ns[Last(p)]
    IN IF c.is_terminal \/ c.children = NoneChildren THEN p
       ELSE LET visited == visited_children(ns, Last(p))
            IN IF Len(visited) = 0 THEN p
               ELSE follow_max(ns, Append(p, visited[FirstMax(rewards_of(ns, visited))]))

\* line 417 iterates cur.children: a TypeError when the descent stands on a node
\* that is not terminal and whose children are None
follow_max_fails(ns, p) ==
    ~ns[Last(follow_max(ns, p))].is_terminal
    /\ ns[Last(follow_max(ns, p))].children = NoneChildren

\* Python's p[1::-1]: the element at index 1, then the one at index 0
slice_1_down(p) == IF Len(p) = 1 THEN <<p[1]>> ELSE <<p[2], p[1]>>

\* MCTS.search, lines 410-429: <<_output_cum_reward, _output_iter>> after the
\* iterations, from the values the iterations left
search_output(output_strategy, ns, old_cum, old_iter) ==
    IF output_strategy = "follow_max"
    THEN LET p == follow_max(ns, <<0>>)
         IN <<cum_reward(rewards_of(ns, slice_1_down(p))), p>>
    ELSE IF output_strategy = "max_reward"
    THEN LET found == dfs_max_reward(ns, <<0>>)
         IN IF found[1] = NegInf THEN <<NegInf, NonePath>> ELSE found
    ELSE <<old_cum, old_iter>>

\* MCTS.__call__, lines 453-457: tree_state_after_each_iter, the first node of
\* every trace of trace_in_each_iter, absent without output_trace_in_each_iter
tree_state_after_each_iter(flag, traces) ==
    IF flag THEN [i \in 1..Len(traces) |-> traces[i][1]] ELSE NonePath

\* MCTS.__call__, lines 444-466: the MCTSResult
MCTSResult(ns, out_cum, out_iter, flag, traces) ==
    [terminal_state |-> IF out_iter = NonePath THEN NoneState ELSE ns[Last(out_iter)].state,
     cum_reward |-> out_cum,
     trace |-> IF out_iter = NonePath THEN << >>
               ELSE <<[i \in 1..Len(out_iter) |-> ns[out_iter[i]].state],
                      [i \in 1..(Len(out_iter) - 1) |-> ns[out_iter[i + 1]].action]>>,
     trace_of_nodes |-> out_iter,
     tree_state |-> 0,
     aggregated_result |-> NoneAnswer,
     trace_in_each_iter |-> IF flag THEN traces ELSE NoneTraces,
     tree_state_after_each_iter |-> tree_state_after_each_iter(flag, traces)]

\* the path p is a trajectory whose last node is terminal
ends_in_terminal(ns, p) == p # NonePath /\ ns[Last(p)].is_terminal

\* ------------------------------------------------------------- aggregation

\* the retrieve_answer the aggregators are built with: the last action of the
\* state, and no answer for the state that "b" alone leads to
retrieve_answer(state) == IF state = <<"b">> THEN NoneAnswer ELSE Last(state)

\* the keys of a defaultdict in insertion order: the answers of a list of entries
\* in the order of their first appearance, after the keys seen
RECURSIVE keys_of(_, _)
keys_of(entries, seen) ==
    IF entries = << >> THEN seen
    ELSE keys_of(Tail(entries),
                 IF \E i \in 1..Len(seen) : seen[i] = Head(entries).answer
                 THEN seen ELSE Append(seen, Head(entries).answer))

\* the depths listed for an answer in a list of (answer, depth) entries
depths_of(info, answer) ==
    LET Is(e) == e.answer = answer
        found == SelectSeq(info, Is)
    IN [i \in 1..Len(found) |-> found[i].depth]

\* what an internal node adds to answer_dict[answer], lines 135-139: nothing under
\* "uniform"
internal_credit(weight_policy, reward, depths) ==
    CASE weight_policy = "edge" -> <<Whole(reward)>>
      [] weight_policy = "edge_inverse_depth" ->
            <<Frac(reward * Len(depths), SumSeq(depths))>>
      [] OTHER -> << >>

\* what a terminal node adds to answer_dict[answer], lines 121-126
terminal_credit(weight_policy, reward, depth) ==
    CASE weight_policy = "edge" -> Whole(reward)
      [] weight_policy = "edge_inverse_depth" -> Frac(reward, depth)
      [] OTHER -> Whole(1)

\* visit(cur) of MCTSAggregation.__call__: info is the list it returns, credits
\* the additions it makes to answer_dict, in order
RECURSIVE visit(_, _, _)
RECURSIVE visit_children(_, _, _, _)
visit(ns, id, weight_policy) ==
    LET c == ns[id]
        nothing == [info |-> << >>, credits |-> << >>]
    IN IF c.state = NoneState THEN nothing
       ELSE IF c.is_terminal
       THEN LET answer == retrieve_answer(c.state)
            IN IF answer = NoneAnswer THEN nothing
               ELSE [info |-> <<[answer |-> answer, depth |-> c.depth]>>,
                     credits |-> <<[answer |-> answer,
                                    amount |-> terminal_credit(weight_policy, c.reward,
                                                               c.depth)]>>]
       ELSE LET below == visit_children(ns, c.children, 1, weight_policy)
                answers == keys_of(below.info, << >>)
                own(i) == internal_credit(weight_policy, c.reward,
                                          depths_of(below.info, answers[i]))
                credited == SelectSeq([i \in 1..Len(answers) |-> i],
                                      LAMBDA i : own(i) # << >>)
            IN [info |-> below.info,
                credits |-> below.credits \o
                            [k \in 1..Len(credited) |->
                                [answer |-> answers[credited[k]],
                                 amount |-> own(credited[k])[1]]]]

\* the loop over cur.children of visit, from the k-th child
visit_children(ns, children, k, weight_policy) ==
    IF k > Len(children) THEN [info |-> << >>, credits |-> << >>]
    ELSE LET first == visit(ns, children[k], weight_policy)
             rest == visit_children(ns, children, k + 1, weight_policy)
         IN [info |-> first.info \o rest.info, credits |-> first.credits \o rest.credits]

\* visit raises TypeError: it iterates over the children of a resolved node that
\* is not terminal and has children = None
RECURSIVE visit_fails(_, _)
visit_fails(ns, id) ==
    /\ ns[id].state # NoneState
    /\ ~ns[id].is_terminal
    /\ \/ ns[id].children = NoneChildren
       \/ \E i \in 1..Len(ns[id].children) : visit_fails(ns, ns[id].children[i])

\* answer_dict[answer] after the additions credits
RECURSIVE answer_dict(_, _)
answer_dict(credits, answer) ==
    IF credits = << >> THEN Whole(0)
    ELSE IF Head(credits).answer = answer
    THEN Plus(Head(credits).amount, answer_dict(Tail(credits), answer))
    ELSE answer_dict(Tail(credits), answer)

\* MCTSAggregation.__call__(tree_state)
aggregate(ns, weight_policy) ==
    LET credits == visit(ns, 0, weight_policy).credits
        answers == keys_of(credits, << >>)
    IN IF Len(answers) = 0 THEN NoneAnswer
       ELSE answers[FirstMaxFrac([i \in 1..Len(answers) |-> answer_dict(credits, answers[i])])]

\* ----------------------------------------------------------------- actions

Init ==
    /\ pc = "new"
    /\ aggregator = NoAggregator
    /\ cfg = NoConfig
    /\ nodes = << >>
    /\ id_iter = 0
    /\ iter = 0
    /\ path = << >>
    /\ cur = 0
    /\ output_iter = NonePath
    /\ output_cum_reward = NegInf
    /\ result = << >>
    /\ error = "None"
    /\ hist = << >>
    /\ found_before = FALSE
    /\ trace_in_each_iter = NoneTraces
    /\ env = << >>
    /\ calls = << >>

\* MCTSAggregation.__init__(retrieve_answer, weight_policy)
MCTSAggregation_init ==
    /\ pc = "new"
    /\ aggregator = NoAggregator
    /\ \E weight_policy \in WeightPolicyNames :
         IF weight_policy \in WeightPolicies
         THEN aggregator' = weight_policy /\ UNCHANGED <<pc, error>>
         ELSE pc' = "rejected" /\ error' = "AssertionError" /\ UNCHANGED aggregator
    /\ UNCHANGED <<cfg, nodes, id_iter, iter, path, cur, output_iter, output_cum_reward,
                   result, hist, found_before, trace_in_each_iter, env, calls>>

\* the arguments MCTS.__init__ is called with: every output strategy and every
\* simulate strategy, known or not; output_trace_in_each_iter and an aggregator
\* each with the default output_strategy and simulate_strategy; w_exp = 0 with
\* the default output_strategy and the "max" simulate_strategy
Arguments(agg) ==
    {c \in [output_strategy : OutputStrategyNames,
            simulate_strategy : SimulateStrategyNames,
            w_exp : WExps, depth_limit : 0..MaxDepthLimit, n_iters : 0..MaxIters,
            output_trace_in_each_iter : BOOLEAN] :
        /\ c.depth_limit * c.n_iters <= (IF c.w_exp = 0 THEN MaxGreedyWork ELSE MaxWork)
        /\ (agg # NoAggregator \/ c.output_trace_in_each_iter) =>
              c.output_strategy = "max_reward" /\ c.simulate_strategy = "random"
        /\ c.w_exp = 0 => c.output_strategy = "max_reward" /\ c.simulate_strategy = "max"
        /\ (agg # NoAggregator \/ c.output_trace_in_each_iter) => c.w_exp = 1
        /\ agg # NoAggregator => ~c.output_trace_in_each_iter}

\* MCTS.__init__(...)
MCTS_init ==
    /\ pc = "new"
    /\ \E c \in Arguments(aggregator) :
         IF c.output_strategy \in OutputStrategies
         THEN /\ cfg' = [output_strategy |-> c.output_strategy,
                         simulate_choice |-> c.simulate_strategy,
                         w_exp |-> c.w_exp, depth_limit |-> c.depth_limit,
                         n_iters |-> c.n_iters,
                         output_trace_in_each_iter |-> c.output_trace_in_each_iter]
              /\ trace_in_each_iter' = NoneTraces
              /\ pc' = "idle"
              /\ UNCHANGED error
         ELSE /\ pc' = "rejected" /\ error' = "AssertionError"
              /\ UNCHANGED <<cfg, trace_in_each_iter>>
    /\ UNCHANGED <<aggregator, nodes, id_iter, iter, path, cur, output_iter,
                   output_cum_reward, result, hist, found_before, env, calls>>

\* MCTS.__call__ up to the first iteration: reset_id, then search resets the output
\* and creates the root from world_model.init_state(), which returns or raises
Call ==
    /\ pc \in {"idle", "done"} \/ (pc = "error" /\ cfg # NoConfig)
    /\ \E init_state_returns \in BOOLEAN :
         IF init_state_returns
         THEN /\ nodes' = [i \in {0} |-> MCTSNode(<< >>, NoneAction, NoneParent, 0, << >>)]
              /\ id_iter' = 1
              /\ error' = "None"
              /\ trace_in_each_iter' = IF cfg.output_trace_in_each_iter THEN << >>
                                       ELSE trace_in_each_iter
              /\ pc' = IF cfg.n_iters > 0 THEN "select" ELSE "output"
         ELSE /\ nodes' = << >>
              /\ id_iter' = 0
              /\ error' = "CollaboratorError"
              /\ pc' = "error"
              /\ UNCHANGED trace_in_each_iter
    /\ output_cum_reward' = NegInf
    /\ output_iter' = NonePath
    /\ iter' = 0
    /\ path' = << >>
    /\ cur' = 0
    /\ result' = << >>
    /\ hist' = << >>
    /\ found_before' = (found_before \/ (pc = "done" /\ ends_in_terminal(nodes, output_iter)))
    /\ env' = << >>
    /\ calls' = << >>
    /\ UNCHANGED <<aggregator, cfg>>

\* one turn of the loop of MCTS._select
Select ==
    /\ pc = "select"
    /\ path' = Append(path, cur)
    /\ IF \/ nodes[cur].children = NoneChildren
          \/ Len(nodes[cur].children) = 0
          \/ is_terminal_with_depth_limit(nodes[cur], cfg.depth_limit)
       THEN /\ pc' = IF is_terminal_with_depth_limit(nodes[cur], cfg.depth_limit)
                     THEN "backprop" ELSE "expand"
            /\ UNCHANGED <<cur, error, env, calls>>
       ELSE IF uct_fails(nodes, cur)
       THEN pc' = "error" /\ error' = "ValueError" /\ UNCHANGED <<cur, env, calls>>
       ELSE \E child \in {uct_select(nodes, cur, cfg.w_exp)} :
              /\ cur' = child
              /\ calls' = Append(calls, step_call(child, nodes[cur].state, env))
              /\ env' = move(env, nodes[child].action)
              /\ UNCHANGED <<pc, error>>
    /\ UNCHANGED <<aggregator, cfg, nodes, id_iter, iter, output_iter, output_cum_reward,
                   result, hist, found_before, trace_in_each_iter>>

\* MCTS.iterate, line 230: _expand(path[-1])
Expand ==
    /\ pc = "expand"
    /\ \E resp \in asked(nodes, Last(path)) :
         /\ nodes' = expand(nodes, Last(path), resp, id_iter)
         /\ id_iter' = Cardinality(DOMAIN nodes')
         /\ calls' = calls \o expand_calls(nodes, Last(path), resp, id_iter, env)
    /\ env' = expand_env(nodes, Last(path), env)
    /\ cur' = Last(path)
    /\ pc' = "simulate"
    /\ UNCHANGED <<aggregator, cfg, iter, path, output_iter, output_cum_reward, result,
                   error, hist, found_before, trace_in_each_iter>>

\* one turn of the loop of MCTS._simulate
Simulate ==
    /\ pc = "simulate"
    /\ \E resp \in (IF nodes[cur].state = NoneState THEN asked(nodes, cur)
                    ELSE {CHOOSE r \in Responses : TRUE}) :
         \E ns \in {IF nodes[cur].state = NoneState
                    THEN expand(nodes, cur, resp, id_iter) ELSE nodes},
            made \in {IF nodes[cur].state = NoneState
                      THEN calls \o expand_calls(nodes, cur, resp, id_iter, env)
                      ELSE calls} :
           /\ nodes' = ns
           /\ id_iter' = Cardinality(DOMAIN ns)
           /\ IF \/ is_terminal_with_depth_limit(ns[cur], cfg.depth_limit)
                 \/ Len(ns[cur].children) = 0
              THEN pc' = "backprop" /\ calls' = made /\ UNCHANGED <<cur, path, error>>
              ELSE \E choices \in {simulate_choice(cfg.simulate_choice,
                                      [i \in 1..Len(ns[cur].children) |->
                                          ns[ns[cur].children[i]].fast_reward])} :
                     /\ calls' = Append(made, choice_call(cur, expand_env(nodes, cur, env)))
                     /\ IF choices = {}
                        THEN /\ pc' = "error"
                             /\ error' = IF cfg.simulate_choice \in DefaultSimulateStrategies
                                         THEN "ValueError" ELSE "TypeError"
                             /\ UNCHANGED <<cur, path>>
                        ELSE \E i \in choices :
                               /\ cur' = ns[cur].children[i]
                               /\ path' = Append(path, ns[cur].children[i])
                               /\ UNCHANGED <<pc, error>>
    /\ env' = expand_env(nodes, cur, env)
    /\ UNCHANGED <<aggregator, cfg, iter, output_iter, output_cum_reward, result, hist,
                   found_before, trace_in_each_iter>>

\* a collaborator call of the running iteration raises: the step of _select, or
\* one of the calls of _expand in iterate or in _simulate; the exception leaves
\* iterate, search and __call__
Fail ==
    /\ \/ /\ pc = "select"
          /\ nodes[cur].children # NoneChildren
          /\ Len(nodes[cur].children) > 0
          /\ ~is_terminal_with_depth_limit(nodes[cur], cfg.depth_limit)
          /\ ~uct_fails(nodes, cur)
          /\ nodes' = unwind(nodes, Append(path, cur))
          /\ UNCHANGED <<id_iter, env>>
       \/ /\ pc \in {"expand", "simulate"}
          /\ pc = "simulate" => nodes[cur].state = NoneState
          /\ \E left \in expand_failures(nodes, IF pc = "expand" THEN Last(path) ELSE cur,
                                          id_iter, env) :
               /\ nodes' = unwind(left.nodes, path)
               /\ id_iter' = left.id_iter
               /\ env' = left.env
    /\ pc' = "error"
    /\ error' = "CollaboratorError"
    /\ path' = << >>
    /\ cur' = 0
    /\ calls' = << >>
    /\ UNCHANGED <<aggregator, cfg, iter, output_iter, output_cum_reward, result, hist,
                   found_before, trace_in_each_iter>>

\* MCTS.iterate from line 232: _back_propagate(path), the output candidate, and the
\* next turn of the loop of search
BackPropagate ==
    /\ pc = "backprop"
    /\ \E ns \in {back_propagate(nodes, path, Len(path), nodes[Last(path)].reward)} :
         \E out \in {record_output(cfg.output_strategy, ns, path, Q(ns[path[1]]),
                                   output_cum_reward, output_iter)} :
           /\ nodes' = ns
           /\ output_cum_reward' = out[1]
           /\ output_iter' = out[2]
           /\ hist' = Append(hist, [path |-> path, reward |-> nodes[Last(path)].reward,
                                    cum_reward |-> Q(ns[path[1]]),
                                    terminal |-> ns[Last(path)].is_terminal])
    /\ iter' = iter + 1
    /\ path' = << >>
    /\ cur' = 0
    /\ calls' = << >>
    /\ pc' = IF iter + 1 < cfg.n_iters THEN "select" ELSE "output"
    /\ UNCHANGED <<aggregator, cfg, id_iter, result, error, found_before,
                   trace_in_each_iter, env>>

\* MCTS.search from line 410 and MCTS.__call__ from line 444: the output strategy,
\* the result and the aggregator's answer
Output ==
    /\ pc = "output"
    /\ IF cfg.output_strategy = "follow_max" /\ follow_max_fails(nodes, <<0>>)
       THEN /\ pc' = "error"
            /\ error' = "TypeError"
            /\ output_iter' = follow_max(nodes, <<0>>)
            /\ UNCHANGED <<output_cum_reward, result>>
       ELSE \E out \in {search_output(cfg.output_strategy, nodes, output_cum_reward,
                                        output_iter)} :
               /\ output_cum_reward' = out[1]
               /\ output_iter' = out[2]
               /\ IF aggregator = NoAggregator
                  THEN /\ result' = <<MCTSResult(nodes, out[1], out[2],
                                                 cfg.output_trace_in_each_iter,
                                                 trace_in_each_iter)>>
                       /\ pc' = "done"
                       /\ UNCHANGED error
                  ELSE IF visit_fails(nodes, 0)
                  THEN pc' = "error" /\ error' = "TypeError" /\ UNCHANGED result
                  ELSE /\ result' = <<[MCTSResult(nodes, out[1], out[2],
                                                  cfg.output_trace_in_each_iter,
                                                  trace_in_each_iter)
                                          EXCEPT !.aggregated_result =
                                                    aggregate(nodes, aggregator)]>>
                       /\ pc' = "done"
                       /\ UNCHANGED error
    /\ UNCHANGED <<aggregator, cfg, nodes, id_iter, iter, path, cur, hist, found_before,
                   trace_in_each_iter, env, calls>>

Next ==
    \/ MCTSAggregation_init
    \/ MCTS_init
    \/ Call
    \/ Select
    \/ Expand
    \/ Simulate
    \/ Fail
    \/ BackPropagate
    \/ Output

Spec == Init /\ [][Next]_vars

\* ------------------------------------------------------------------ claims

\* the back-propagations of this search whose path holds the node id
Through(id) == {k \in 1..Len(hist) : \E i \in 1..Len(hist[k].path) : hist[k].path[i] = id}

RECURSIVE SumOver(_, _)
\* the sum of f[k] over the set S
SumOver(f, S) == IF S = {} THEN 0 ELSE LET k == CHOOSE x \in S : TRUE
                                       IN f[k] + SumOver(f, S \ {k})

\* C1: every node's N is the number of back-propagated paths that hold the node
\* (so one back-propagation adds exactly one to N on each node of its path and
\* nothing elsewhere), and the root's N is the number of completed iterations
C1_VisitCount ==
    /\ \A id \in DOMAIN nodes : nodes[id].N = Cardinality(Through(id))
    /\ nodes # << >> => nodes[0].N = iter /\ iter = Len(hist)

\* C1 witness: after three iterations a node off one of the paths has N = 1 and
\* another has N = 2
C1_Witness ==
    /\ nodes # << >> /\ nodes[0].N = 3
    /\ \E a, b \in DOMAIN nodes : nodes[a].N = 1 /\ nodes[b].N = 2

\* C2: Q reads 0 when N = 0 and otherwise the mean of the leaf rewards of the
\* back-propagations through the node; what _back_propagate returned is the
\* root's Q after its update
C2_MeanOfLeafRewards ==
    /\ \A id \in DOMAIN nodes :
          IF nodes[id].N = 0 THEN Q(nodes[id]) = Whole(0)
          ELSE /\ Q(nodes[id]).den > 0
               /\ Q(nodes[id]).num * nodes[id].N
                    = Q(nodes[id]).den * SumOver([k \in 1..Len(hist) |-> hist[k].reward],
                                                 Through(id))
    /\ \A k \in 1..Len(hist) :
          hist[k].cum_reward.num * k
            = hist[k].cum_reward.den * SumOver([j \in 1..Len(hist) |-> hist[j].reward], 1..k)
    /\ hist # << >> /\ pc \in {"select", "output"} => Last(hist).cum_reward = Q(nodes[0])

\* C2 witness: a node visited three times whose Q is 1/3 and one visited once
\* whose Q is 1
C2_Witness ==
    \E a, b \in DOMAIN nodes :
        /\ nodes[a].N = 3 /\ Q(nodes[a]) = [num |-> 1, den |-> 3]
        /\ nodes[b].N = 1 /\ Q(nodes[b]) = Whole(1)

RECURSIVE PathTo(_)
PathTo(id) == IF nodes[id].parent = NoneParent THEN <<id>>
              ELSE Append(PathTo(nodes[id].parent), id)

\* p runs from the root down the children lists of the tree
IsTreePath(p) ==
    /\ p # << >> /\ p[1] = 0
    /\ \A i \in 1..Len(p) : p[i] \in DOMAIN nodes
    /\ \A i \in 1..(Len(p) - 1) :
          /\ nodes[p[i]].children # NoneChildren
          /\ \E j \in 1..Len(nodes[p[i]].children) : nodes[p[i]].children[j] = p[i + 1]

\* the terminal nodes reached from the root through resolved nodes only
ResolvedTerminals ==
    {t \in DOMAIN nodes :
        /\ nodes[t].is_terminal
        /\ IsTreePath(PathTo(t))
        /\ \A i \in 1..Len(PathTo(t)) : nodes[PathTo(t)[i]].state # NoneState}

\* the sum of the rewards on the path to t, the root's left out
PathReward(t) ==
    SumOver([i \in 1..Len(PathTo(t)) |-> nodes[PathTo(t)[i]].reward], 2..Len(PathTo(t)))

\* C4: with max_visit the result ends at a visited terminal node of maximum N, and
\* is absent only when no terminal node was visited
C4_MaxVisitOutput ==
    pc = "done" /\ cfg.output_strategy = "max_visit" =>
        LET visited == {t \in DOMAIN nodes : nodes[t].is_terminal /\ nodes[t].N > 0}
            p == result[1].trace_of_nodes
        IN IF visited = {} THEN p = NonePath
           ELSE /\ p # NonePath
                /\ Last(p) \in visited
                /\ \A t \in visited : nodes[t].N <= nodes[Last(p)].N

\* C5: with max_reward the result is a path of resolved nodes from the root to a
\* terminal node whose summed reward (the root's left out) is the largest among
\* all such paths, cum_reward is that sum, and the result is absent when there is
\* no such path
C5_MaxRewardOutput ==
    pc = "done" /\ cfg.output_strategy = "max_reward" =>
        IF ResolvedTerminals = {}
        THEN /\ result[1].trace_of_nodes = NonePath
             /\ result[1].trace = << >>
             /\ result[1].terminal_state = NoneState
        ELSE \E t \in ResolvedTerminals :
                /\ result[1].trace_of_nodes = PathTo(t)
                /\ result[1].terminal_state = nodes[t].state
                /\ result[1].cum_reward = Whole(PathReward(t))
                /\ \A u \in ResolvedTerminals : PathReward(u) <= PathReward(t)

\* C5 witness: two terminal paths of different reward, the better one through the
\* second child of the root, and it is the one returned
C5_Witness ==
    /\ pc = "done" /\ cfg.output_strategy = "max_reward"
    /\ \E t, u \in ResolvedTerminals :
          /\ PathReward(u) < PathReward(t)
          /\ result[1].trace_of_nodes = PathTo(t)
          /\ Len(nodes[0].children) = 2
          /\ PathTo(t)[2] = nodes[0].children[2]

\* C6: with follow_max, cum_reward is the reducer on the rewards of the followed
\* path without the root, whatever the length of the path
C6_FollowMaxCumReward ==
    pc = "done" /\ cfg.output_strategy = "follow_max" =>
        result[1].cum_reward
          = cum_reward(rewards_of(nodes, Tail(result[1].trace_of_nodes)))

\* the iterations of this search whose path ended in a terminal node
TerminalIters == {k \in 1..Len(hist) : hist[k].terminal}

\* C7: with max_iter the recorded path is an iteration path that ended in a
\* terminal node and whose cum_reward is the largest among those so far; with
\* last_terminal_iter it is the latest iteration path that ended in a terminal
\* node; with last_iter it is the latest iteration path
C7_IterationOutputs ==
    /\ cfg.output_strategy = "max_iter" =>
          IF TerminalIters = {}
          THEN output_iter = NonePath /\ output_cum_reward = NegInf
          ELSE \E k \in TerminalIters :
                  /\ output_iter = hist[k].path
                  /\ output_cum_reward = hist[k].cum_reward
                  /\ \A j \in TerminalIters : ~Less(hist[k].cum_reward, hist[j].cum_reward)
    /\ cfg.output_strategy = "last_terminal_iter" =>
          IF TerminalIters = {}
          THEN output_iter = NonePath /\ output_cum_reward = NegInf
          ELSE \E k \in TerminalIters :
                  /\ \A j \in TerminalIters : j <= k
                  /\ output_iter = hist[k].path
                  /\ output_cum_reward = hist[k].cum_reward
    /\ cfg.output_strategy = "last_iter" =>
          IF hist = << >>
          THEN output_iter = NonePath /\ output_cum_reward = NegInf
          ELSE output_iter = Last(hist).path /\ output_cum_reward = Last(hist).cum_reward

\* C7 witness: with max_iter, a later iteration ended in a terminal node on
\* another path with a smaller cum_reward, and the earlier path is kept
C7_Witness ==
    /\ cfg.output_strategy = "max_iter"
    /\ Len(hist) >= 2
    /\ hist[1].terminal /\ hist[2].terminal
    /\ hist[2].path # hist[1].path
    /\ Less(hist[2].cum_reward, hist[1].cum_reward)
    /\ output_iter = hist[1].path

\* the output strategies that need a terminal node
TerminalStrategies == {"max_reward", "max_visit", "max_iter", "last_terminal_iter"}

C9_RejectedAtConstruction ==
    /\ aggregator \in WeightPolicies \cup {NoAggregator}
    /\ cfg # NoConfig =>
          /\ cfg.output_strategy \in OutputStrategies
          /\ cfg.simulate_choice \in DefaultSimulateStrategies

\* the nodes of p have depth <= depth_limit, so p has at most depth_limit + 1 nodes
WithinDepthLimit(p) ==
    /\ Len(p) <= cfg.depth_limit + 1
    /\ \A i \in 1..Len(p) : nodes[p[i]].depth <= cfg.depth_limit

\* C10: the path an iteration builds in _select and _simulate, and the output
\* trajectory of every output strategy, hold only nodes of depth <= depth_limit
C10_DepthLimit ==
    /\ WithinDepthLimit(path)
    /\ pc \in {"select", "simulate"} => nodes[cur].depth <= cfg.depth_limit
    /\ \A k \in 1..Len(hist) : WithinDepthLimit(hist[k].path)
    /\ output_iter # NonePath => WithinDepthLimit(output_iter)
    /\ result # << >> /\ result[1].trace_of_nodes # NonePath =>
          /\ WithinDepthLimit(result[1].trace_of_nodes)
          /\ Len(result[1].trace[1]) <= cfg.depth_limit + 1

\* C10 witness: with depth_limit = 2 a returned trajectory has three nodes while
\* the tree holds a node of depth 3
C10_Witness ==
    /\ pc = "done" /\ cfg.depth_limit = 2
    /\ result[1].trace_of_nodes # NonePath
    /\ Len(result[1].trace_of_nodes) = 3
    /\ \E id \in DOMAIN nodes : nodes[id].depth = 3

\* C11: a search of an engine built with output_trace_in_each_iter returns a result
\* whose trace_in_each_iter holds exactly n_iters entries, the path of each
\* iteration in iteration order, and whose tree_state_after_each_iter holds one
\* entry, the root, per iteration.
C11_TraceOfEachIteration ==
    (pc = "done" /\ cfg.output_trace_in_each_iter) =>
        /\ Len(result[1].trace_in_each_iter) = cfg.n_iters
        /\ \A k \in 1..cfg.n_iters : result[1].trace_in_each_iter[k] = hist[k].path
        /\ Len(result[1].tree_state_after_each_iter) = cfg.n_iters
        /\ \A k \in 1..cfg.n_iters : result[1].tree_state_after_each_iter[k] = 0

\* Q + w_exp * sqrt(ln(parent.N) / (1 + N)) of the node id, in units of 10^-4
UcbScore(id) ==
    (Q(nodes[id]).num * 10000) \div Q(nodes[id]).den
    + cfg.w_exp * Sqrt((LnTable[nodes[nodes[id].parent].N] * 10000) \div (1 + nodes[id].N))

AnsweredTerminals ==
    {t \in DOMAIN nodes : /\ nodes[t].state # NoneState /\ nodes[t].is_terminal
                          /\ retrieve_answer(nodes[t].state) # NoneAnswer}

\* the answers found in the tree
Credited == {retrieve_answer(nodes[t].state) : t \in AnsweredTerminals}

\* the resolved internal nodes with the answer x in their subtree
InternalsAbove(x) ==
    {n \in DOMAIN nodes :
        /\ nodes[n].state # NoneState /\ ~nodes[n].is_terminal
        /\ \E t \in AnsweredTerminals :
              /\ retrieve_answer(nodes[t].state) = x
              /\ \E i \in 1..Len(PathTo(t)) : PathTo(t)[i] = n}

\* the total credit of the answer x under the weight policy
Credit(weight_policy, x) ==
    LET terminals == {t \in AnsweredTerminals : retrieve_answer(nodes[t].state) = x}
        reward == [n \in DOMAIN nodes |-> nodes[n].reward]
    IN IF weight_policy = "edge"
       THEN SumOver(reward, terminals) + SumOver(reward, InternalsAbove(x))
       ELSE Cardinality(terminals)

\* C13: when the search of an engine with an "edge" or "uniform" aggregator has
\* produced its tree, the call returns a result whose aggregated_result is an
\* answer with the highest total credit: under "edge" the sum of reward over the
\* resolved terminal nodes with that answer plus the reward of every resolved
\* internal node with that answer in its subtree, under "uniform" the number of
\* terminal nodes with that answer; it is absent exactly when no answer was
\* credited.
C13_AggregatedAnswer ==
    (/\ aggregator \in {"edge", "uniform"}
     /\ pc \in {"done", "error"}
     /\ error \in {"None", "TypeError"}) =>
        /\ pc = "done"
        /\ IF Credited = {}
           THEN result[1].aggregated_result = NoneAnswer
           ELSE /\ result[1].aggregated_result \in Credited
                /\ \A x \in Credited :
                      Credit(aggregator, x) <= Credit(aggregator, result[1].aggregated_result)

\* C14: with depth_limit >= 1, a node whose state is unresolved has N = 0 and is on
\* the path of no iteration that was back-propagated: every node that was
\* back-propagated through has a resolved state, and so a reward computed by
\* search_config.reward.
C14_UnresolvedNeverVisited ==
    cfg.depth_limit >= 1 =>
        \A id \in DOMAIN nodes :
            nodes[id].state = NoneState => nodes[id].N = 0 /\ Through(id) = {}

\* the calls of world_model.step of the running iteration
StepCalls == {k \in 1..Len(calls) : calls[k].fn = "step"}

\* C15: every world_model.step(s, a) is called while the environment is at s, so
\* that the environment follows the trajectory of each iteration from the root:
\* when an iteration reaches its back-propagation each edge of its path was
\* stepped exactly once and the environment is at the state of the last node it
\* stepped to.
C15_EnvironmentFollows ==
    /\ \A k \in StepCalls : calls[k].at = calls[k].arg
    /\ pc = "backprop" =>
          /\ \A i \in 2..Len(path) :
                Cardinality({k \in StepCalls : calls[k].node = path[i]}) = 1
          /\ StepCalls # {} =>
                env = Step(nodes[nodes[Last(path)].parent].state, nodes[Last(path)].action)

\* the node id can be reached from the root of ns through children lists
RECURSIVE Reachable(_, _)
Reachable(ns, id) ==
    \/ id = 0
    \/ /\ ns[id].parent # NoneParent
       /\ ns[ns[id].parent].children # NoneChildren
       /\ \E i \in 1..Len(ns[ns[id].parent].children) : ns[ns[id].parent].children[i] = id
       /\ Reachable(ns, ns[id].parent)

\* the parent, depth and children fields make a tree
TreeShape ==
    /\ \A id \in DOMAIN nodes :
          /\ (nodes[id].parent = NoneParent) <=> (id = 0)
          /\ (nodes[id].depth = 0) <=> (id = 0)
          /\ nodes[id].children # NoneChildren =>
                \A i \in 1..Len(nodes[id].children) :
                    /\ nodes[id].children[i] \in DOMAIN nodes
                    /\ nodes[nodes[id].children[i]].parent = id
                    /\ nodes[nodes[id].children[i]].depth = nodes[id].depth + 1
    /\ \A a, b \in DOMAIN nodes :
          (nodes[a].children # NoneChildren /\ nodes[b].children # NoneChildren) =>
             \A i \in 1..Len(nodes[a].children), j \in 1..Len(nodes[b].children) :
                 nodes[a].children[i] = nodes[b].children[j] => a = b /\ i = j

\* C16: the root is the one node without parent and the one node with depth 0;
\* every child c in the children list of a node has that node as parent and its
\* depth plus one; no node is in two children lists; and, while a search runs, a
\* node that can be reached from the root can still be reached after every step.
C16_Tree ==
    /\ []TreeShape
    /\ [][(pc \in {"select", "expand", "simulate", "backprop", "output"}) =>
            \A id \in DOMAIN nodes :
                Reachable(nodes, id) => id \in DOMAIN nodes' /\ Reachable(nodes', id)]_vars

\* C16 witness: a tree with a node at depth 2 whose parent and whose grandparent,
\* the root, have two children each
C16_Witness ==
    \E id \in DOMAIN nodes :
        /\ nodes[id].depth = 2
        /\ Reachable(nodes, id)
        /\ Len(nodes[nodes[id].parent].children) = 2
        /\ Len(nodes[0].children) = 2

\* a terminal node has no children, get_actions was not called for it, and it is
\* the last node of every path it is on
TerminalIsLeaf ==
    \A id \in DOMAIN nodes : nodes[id].is_terminal =>
        /\ nodes[id].children = NoneChildren
        /\ \A k \in 1..Len(calls) : calls[k].node = id => calls[k].fn # "get_actions"
        /\ \A i \in 1..(Len(path) - 1) : path[i] # id
        /\ \A k \in 1..Len(hist) : \A i \in 1..(Len(hist[k].path) - 1) : hist[k].path[i] # id

\* C17: a node whose is_terminal is true keeps it true and never gets children
\* while the search runs; no step of a later iteration expands it: the only call
\* made for it is the step of _select, never reward, is_terminal, get_actions or
\* fast_reward; and _select and _simulate stop at it, so that it is the last node
\* of every path it is on.
C17_TerminalStays ==
    /\ []TerminalIsLeaf
    /\ [][(pc \in {"select", "expand", "simulate", "backprop", "output"}) =>
            \A id \in DOMAIN nodes : nodes[id].is_terminal =>
                /\ nodes'[id].is_terminal
                /\ nodes'[id].children = NoneChildren
                /\ \A k \in (Len(calls) + 1)..Len(calls') :
                      calls'[k].node = id => calls'[k].fn = "step"]_vars

\* C17 witness: an iteration whose _select went to a terminal node that an
\* earlier iteration visited, and stopped there: the path is ready for
\* back-propagation and the only call made is the step to that node
C17_Witness ==
    /\ pc = "backprop"
    /\ nodes[Last(path)].is_terminal /\ nodes[Last(path)].N >= 1
    /\ Len(calls) = 1 /\ calls[1].fn = "step" /\ calls[1].node = Last(path)

\* C18: when no collaborator call fails, a search ends by returning a result after
\* exactly n_iters iterations, each of them back-propagated once, and no path of
\* an iteration descends more than depth_limit levels; stated for the engines
\* without aggregator whose simulate_strategy is "random", which always returns
\* an index.
C18_SearchReturns ==
    (aggregator = NoAggregator /\ cfg.simulate_choice = "random"
        /\ error # "CollaboratorError") =>
        /\ Len(path) <= cfg.depth_limit + 1
        /\ iter = Len(hist) /\ iter <= cfg.n_iters
        /\ pc # "error"
        /\ pc = "done" => iter = cfg.n_iters /\ result # << >>

\* the calls k of the running iteration with the name fn made for the node
CallsOf(fn, node) == {k \in 1..Len(calls) : calls[k].fn = fn /\ calls[k].node = node}

\* the calls that resolve the node: step, reward and is_terminal
ResolvingCalls(node) ==
    {k \in 1..Len(calls) : /\ calls[k].node = node
                           /\ calls[k].fn \in {"step", "reward", "is_terminal"}}

\* the creations of the children of the node
CreationsUnder(node) ==
    {k \in 1..Len(calls) : /\ calls[k].fn = "MCTSNode"
                           /\ nodes[calls[k].node].parent = node}

\* C19: in every iteration, for every node that _expand works on: reward directly
\* follows the step that resolves the node and is_terminal directly follows
\* reward; get_actions and the creation of every child come after all of them;
\* the children list holds the actions in the order get_actions returned them;
\* and _simulate chooses among the children of a node only after get_actions and
\* the creation of all its children in this same iteration.
C19_ExpandOrder ==
    \A k \in 1..Len(calls) :
        /\ calls[k].fn = "reward" =>
              k > 1 /\ calls[k - 1].fn = "step" /\ calls[k - 1].node = calls[k].node
        /\ calls[k].fn = "is_terminal" =>
              k > 1 /\ calls[k - 1].fn = "reward" /\ calls[k - 1].node = calls[k].node
        /\ calls[k].fn = "get_actions" =>
              /\ \A j \in ResolvingCalls(calls[k].node) : j < k
              /\ \A j \in CreationsUnder(calls[k].node) : j > k
              /\ Cardinality(CreationsUnder(calls[k].node)) = Len(calls[k].arg)
              /\ nodes[calls[k].node].children # NoneChildren
              /\ calls[k].arg = [i \in 1..Len(nodes[calls[k].node].children) |->
                                   nodes[nodes[calls[k].node].children[i]].action]
        /\ calls[k].fn = "MCTSNode" =>
              /\ \E j \in CallsOf("get_actions", nodes[calls[k].node].parent) : j < k
              /\ \A j \in ResolvingCalls(nodes[calls[k].node].parent) : j < k
        /\ calls[k].fn = "simulate_choice" =>
              /\ \E j \in CallsOf("get_actions", calls[k].node) : j < k
              /\ \A j \in CreationsUnder(calls[k].node) : j < k
              /\ nodes[calls[k].node].children # NoneChildren

\* C19 witness: in one iteration _simulate has resolved a child of the root, got
\* two actions for it, and chosen among its two children
C19_Witness ==
    \E k \in 1..Len(calls) :
        /\ calls[k].fn = "simulate_choice"
        /\ calls[k].node # 0
        /\ Len(nodes[calls[k].node].children) = 2
        /\ CallsOf("is_terminal", calls[k].node) # {}
        /\ Last(path) \in {nodes[calls[k].node].children[i] : i \in 1..2}

\* a collaborator call has raised and ended the search
CollaboratorFailed == pc = "error" /\ error = "CollaboratorError"

\* C20: when a collaborator call raises during an iteration the search ends with
\* that exception; the N and Q of every node are the ones the back-propagations
\* of the completed iterations left, since no step of an iteration before its
\* back-propagation changes any N or Q; the failed iteration is not counted, and
\* no further iteration runs: the engine's next step is a new call.
C20_FailureLeavesStatistics ==
    /\ [](CollaboratorFailed =>
            /\ iter = Len(hist)
            /\ \A id \in DOMAIN nodes :
                  /\ nodes[id].N = Cardinality(Through(id))
                  /\ Q(nodes[id]).num * nodes[id].N
                       = Q(nodes[id]).den * SumOver([k \in 1..Len(hist) |-> hist[k].reward],
                                                    Through(id)))
    /\ [][/\ (pc \in {"select", "expand", "simulate"}) =>
               \A id \in DOMAIN nodes :
                   id \in DOMAIN nodes' => /\ nodes'[id].N = nodes[id].N
                                           /\ nodes'[id].Q = nodes[id].Q
          /\ CollaboratorFailed => iter' = 0 /\ hist' = << >>]_vars

\* C20 witness: a collaborator call raised in the second iteration, after the
\* iteration had resolved a node: the root and a child keep N = 1 from the first
\* iteration and the newly resolved node has N = 0
C20_Witness ==
    /\ CollaboratorFailed
    /\ iter = 1 /\ nodes[0].N = 1
    /\ \E a, b \in DOMAIN nodes :
          /\ nodes[a].N = 1 /\ nodes[a].parent = 0
          /\ nodes[b].N = 0 /\ nodes[b].state # NoneState

\* the sum of N over the children of the node id
ChildVisits(id) ==
    SumSeq([i \in 1..Len(nodes[id].children) |-> nodes[nodes[id].children[i]].N])

\* the nodes _uct is evaluated under: their children list is not empty and every
\* child has N >= 1
UctParents ==
    {id \in DOMAIN nodes : /\ nodes[id].children # NoneChildren
                           /\ Len(nodes[id].children) > 0
                           /\ Unvisited(nodes, id) = {}}

\* C21: in every reachable state the N of a node with initialized children is at
\* least the sum of N over its children; so a node whose children all have N >= 1
\* has N at least the number of its children, ln(N) is defined and not negative
\* for it, and _uct_select does not fail on it with the ValueError of math.log(0).
C21_ParentVisits ==
    /\ \A id \in DOMAIN nodes :
          nodes[id].children # NoneChildren => nodes[id].N >= ChildVisits(id)
    /\ \A id \in UctParents :
          /\ nodes[id].N >= Len(nodes[id].children)
          /\ nodes[id].N \in DOMAIN LnTable
          /\ LnTable[nodes[id].N] >= 0
          /\ ~uct_fails(nodes, id)

\* C21 witness: _select has just moved by _uct from a node with two children, both
\* with N >= 1, whose own N is the sum of theirs
C21_Witness ==
    /\ pc = "select" /\ path # << >>
    /\ Last(path) \in UctParents
    /\ nodes[cur].parent = Last(path)
    /\ Len(nodes[Last(path)].children) = 2
    /\ nodes[Last(path)].N = ChildVisits(Last(path))

====
